---- MODULE Spec2Model ----
(***************************************************************************)
(* State machine of the ContactForm React component                       *)
(* (src/unnamed/part_000): the two useState cells formData and formState, *)
(* the event handlers handleInputChange / handleSubmit / the reset button, *)
(* and the continuation of the async handleSubmit across its two awaits    *)
(* (fetch, response.json()).                                               *)
(*                                                                         *)
(* Strings the code inspects (the three fields) are sequences of one-     *)
(* character strings, so that trim() and the e-mail regular expression    *)
(* are computed character by character.  Messages the code only stores    *)
(* and displays are TLA+ strings.  A value of type string|null is a       *)
(* sequence of length 0 (null) or 1 (the string).                          *)
(***************************************************************************)
EXTENDS Integers, Sequences, FiniteSets, TLC

VARIABLES formData, formState, inflight, toasts, consoleErrors, fetchCount

vars == <<formData, formState, inflight, toasts, consoleErrors, fetchCount>>

(***************************************************************************)
(* Bounds                                                                  *)
(***************************************************************************)
\* longest name / message value an input event delivers
MaxFieldLen == 1
\* longest e-mail value validation is explored on (SpecValidate)
MaxEmailLen == 5
\* number of fetch calls explored in one behaviour
MaxSubmits == 3

(***************************************************************************)
(* Characters and strings                                                  *)
(***************************************************************************)
\* one representative per character class the code distinguishes:
\* whitespace (\s), "@", ".", any other non-whitespace character
SP == " "
FieldAlphabet == {"a", SP}
EmailAlphabet == {"a", SP, "@", "."}

Strs(alphabet, n) == UNION {[1..k -> alphabet] : k \in 0..n}

NameInputs == Strs(FieldAlphabet, MaxFieldLen)
MessageInputs == Strs(FieldAlphabet, MaxFieldLen)
\* e-mail values typed in the interactive specification
EmailInputs ==
  { <<>>, <<SP>>, <<"a", "@", "a">>, <<"a", "@", "a", ".", "a">>,
    <<"a", SP, "@", "a", ".", "a">> }
\* e-mail values validation is explored on
EmailStrings == Strs(EmailAlphabet, MaxEmailLen)

NULL == <<>>
Some(m) == <<m>>

\* JavaScript truthiness of a string|null value
Truthy(e) == e # NULL /\ e[1] # ""

IsSpace(c) == c = SP

RECURSIVE trimStart(_)
trimStart(s) ==
  IF s = <<>> THEN <<>>
  ELSE IF IsSpace(Head(s)) THEN trimStart(Tail(s)) ELSE s

RECURSIVE trimEnd(_)
trimEnd(s) ==
  IF s = <<>> THEN <<>>
  ELSE IF IsSpace(s[Len(s)]) THEN trimEnd(SubSeq(s, 1, Len(s) - 1)) ELSE s

\* String.prototype.trim
trim(s) == trimEnd(trimStart(s))

\* !s.trim()  (the empty string is falsy)
IsBlank(s) == trim(s) = <<>>

\* all of s[lo..hi] are \S and there is at least one
NonSpaceRun(s, lo, hi) ==
  /\ lo <= hi
  /\ \A i \in lo..hi : ~IsSpace(s[i])

\* /\S+@\S+\.\S+/.test(s): an unanchored search for
\* one-or-more \S, "@", one-or-more \S, ".", one-or-more \S.
\* a and d are the positions the "@" and the "." of a match take; the
\* search is unanchored, so the outer \S+ need only the one character next
\* to the "@" and to the ".", while the inner \S+ must fill a+1..d-1.
EmailRegexTest(s) ==
  \E a \in 2..Len(s) :
    /\ s[a] = "@"
    /\ ~IsSpace(s[a - 1])
    /\ \E d \in (a + 2)..(Len(s) - 1) :
         /\ s[d] = "."
         /\ NonSpaceRun(s, a + 1, d - 1)
         /\ ~IsSpace(s[d + 1])

(***************************************************************************)
(* Messages and records                                                    *)
(***************************************************************************)
NameRequired == "Name is required"
EmailRequired == "Email is required"
EmailInvalid == "Please enter a valid email address"
MessageRequired == "Message is required"
SendFailed == "Failed to send message. Please try again later."

EmptyFormData == [name |-> <<>>, email |-> <<>>, message |-> <<>>]

IdleState == [isSubmitting |-> FALSE, isSuccess |-> FALSE, error |-> NULL]
SubmittingState == [isSubmitting |-> TRUE, isSuccess |-> FALSE, error |-> NULL]
SuccessState == [isSubmitting |-> FALSE, isSuccess |-> TRUE, error |-> NULL]
FailedState ==
  [isSubmitting |-> FALSE, isSuccess |-> FALSE, error |-> Some(SendFailed)]

SuccessToast ==
  [title |-> "Message sent successfully!",
   description |-> "Thank you for your message. We'll get back to you soon.",
   variant |-> "default"]
ErrorToast ==
  [title |-> "Error sending message",
   description |-> "Please try again later or contact us directly.",
   variant |-> "destructive"]

\* HTTP statuses the endpoint answers with; Response.ok is status in 200..299
Statuses == {200, 500}
ResponseOk(status) == status >= 200 /\ status <= 299
Responses == [status : Statuses, bodyParses : BOOLEAN]
NoResponse == [status |-> 0, bodyParses |-> FALSE]

\* what the catch block receives and logs
HttpError(status) == [kind |-> "http", status |-> status]
NetworkError == [kind |-> "network", status |-> 0]
JsonError == [kind |-> "json", status |-> 0]

(***************************************************************************)
(* Rendering: which controls exist and are enabled                         *)
(***************************************************************************)
\* state updates made in one continuation after an await are committed in a
\* single render (the root's automatic batching)
AutomaticBatching == TRUE

\* a continuation of handleSubmit is between two of its statements; events
\* are handled only once it has run to its end
TaskRunning == \E i \in 1..Len(inflight) : inflight[i].pc = "clear"

\* the field form is rendered unless the confirmation view replaces it
FormRendered == ~formState.isSuccess
\* variant: the disabled attribute is missing from the controls
ControlsEnabled_NeverDisabled == ~formState.isSuccess
\* disabled={formState.isSubmitting} on the three inputs and the button
ControlsEnabled == FormRendered /\ ~formState.isSubmitting
\* variant: the reset control is rendered in both views
ResetRendered_Always == TRUE
\* the confirmation view, with the reset control, replaces the form
ResetRendered == formState.isSuccess

(***************************************************************************)
(* validateForm: the error it sets, or NULL when it returns true           *)
(***************************************************************************)
\* variant: the name check tests the raw value, without trim()
validateForm_NameUntrimmed(fd) ==
  IF fd.name = <<>> THEN Some(NameRequired)
  ELSE IF IsBlank(fd.email) THEN Some(EmailRequired)
  ELSE IF ~EmailRegexTest(fd.email) THEN Some(EmailInvalid)
  ELSE IF IsBlank(fd.message) THEN Some(MessageRequired)
  ELSE NULL

\* variant: the pattern check is missing
validateForm_NoPatternCheck(fd) ==
  IF IsBlank(fd.name) THEN Some(NameRequired)
  ELSE IF IsBlank(fd.email) THEN Some(EmailRequired)
  ELSE IF IsBlank(fd.message) THEN Some(MessageRequired)
  ELSE NULL

\* variant: the message check runs before the two e-mail checks
validateForm_MessageBeforeEmail(fd) ==
  IF IsBlank(fd.name) THEN Some(NameRequired)
  ELSE IF IsBlank(fd.message) THEN Some(MessageRequired)
  ELSE IF IsBlank(fd.email) THEN Some(EmailRequired)
  ELSE IF ~EmailRegexTest(fd.email) THEN Some(EmailInvalid)
  ELSE NULL

validateForm(fd) ==
  IF IsBlank(fd.name) THEN Some(NameRequired)
  ELSE IF IsBlank(fd.email) THEN Some(EmailRequired)
  ELSE IF ~EmailRegexTest(fd.email) THEN Some(EmailInvalid)
  ELSE IF IsBlank(fd.message) THEN Some(MessageRequired)
  ELSE NULL

(***************************************************************************)
(* Initial state: the two useState initialisers                            *)
(***************************************************************************)
Init ==
  /\ formData = EmptyFormData
  /\ formState = IdleState
  /\ inflight = <<>>
  /\ toasts = <<>>
  /\ consoleErrors = <<>>
  /\ fetchCount = 0

(***************************************************************************)
(* Event handlers                                                          *)
(***************************************************************************)
\* variant: the error is left for the next submit to replace
handleInputChange_KeepsError(field, value) ==
  /\ ControlsEnabled
  /\ formData' = [formData EXCEPT ![field] = value]
  /\ UNCHANGED <<formState, inflight, toasts, consoleErrors, fetchCount>>

handleInputChange(field, value) ==
  /\ ControlsEnabled
  /\ formData' = [formData EXCEPT ![field] = value]
  /\ formState' = IF Truthy(formState.error)
                    THEN [formState EXCEPT !.error = NULL]
                    ELSE formState
  /\ UNCHANGED <<inflight, toasts, consoleErrors, fetchCount>>

\* variant: Submitting is written over the previous state
\* ({...prev, isSubmitting: true}), so a displayed error survives
handleSubmit_KeepsError ==
  /\ ControlsEnabled
  /\ LET err == validateForm(formData) IN
       IF err # NULL
         THEN /\ formState' = [formState EXCEPT !.error = err]
              /\ UNCHANGED <<formData, inflight, toasts, consoleErrors,
                             fetchCount>>
         ELSE /\ fetchCount < MaxSubmits
              /\ formState' = [formState EXCEPT !.isSubmitting = TRUE]
              /\ inflight' = Append(inflight,
                               [body |-> formData, pc |-> "fetch",
                                response |-> NoResponse])
              /\ fetchCount' = fetchCount + 1
              /\ UNCHANGED <<formData, toasts, consoleErrors>>

\* variant: a failed validation also raises the destructive notification
handleSubmit_ToastsOnInvalid ==
  /\ ControlsEnabled
  /\ LET err == validateForm(formData) IN
       IF err # NULL
         THEN /\ formState' = [formState EXCEPT !.error = err]
              /\ toasts' = Append(toasts, ErrorToast)
              /\ UNCHANGED <<formData, inflight, consoleErrors, fetchCount>>
         ELSE /\ fetchCount < MaxSubmits
              /\ formState' = SubmittingState
              /\ inflight' = Append(inflight,
                               [body |-> formData, pc |-> "fetch",
                                response |-> NoResponse])
              /\ fetchCount' = fetchCount + 1
              /\ UNCHANGED <<formData, toasts, consoleErrors>>

\* variant: the fields are reset as soon as the request is sent
handleSubmit_ClearsOnSend ==
  /\ ControlsEnabled
  /\ LET err == validateForm(formData) IN
       IF err # NULL
         THEN /\ formState' = [formState EXCEPT !.error = err]
              /\ UNCHANGED <<formData, inflight, toasts, consoleErrors,
                             fetchCount>>
         ELSE /\ fetchCount < MaxSubmits
              /\ formState' = SubmittingState
              /\ inflight' = Append(inflight,
                               [body |-> formData, pc |-> "fetch",
                                response |-> NoResponse])
              /\ fetchCount' = fetchCount + 1
              /\ formData' = EmptyFormData
              /\ UNCHANGED <<toasts, consoleErrors>>

\* the synchronous part of handleSubmit, up to the first await
handleSubmit ==
  /\ ControlsEnabled
  /\ LET err == validateForm(formData) IN
       IF err # NULL
         THEN /\ formState' = [formState EXCEPT !.error = err]
              /\ UNCHANGED <<formData, inflight, toasts, consoleErrors,
                             fetchCount>>
         ELSE /\ fetchCount < MaxSubmits
              /\ formState' = SubmittingState
              /\ inflight' = Append(inflight,
                               [body |-> formData, pc |-> "fetch",
                                response |-> NoResponse])
              /\ fetchCount' = fetchCount + 1
              /\ UNCHANGED <<formData, toasts, consoleErrors>>

\* variant: the object literal of the submit path pasted into the handler
reset_ToSubmitting ==
  /\ ResetRendered
  /\ formState' = SubmittingState
  /\ UNCHANGED <<formData, inflight, toasts, consoleErrors, fetchCount>>

\* onClick of "Send Another Message"
reset ==
  /\ ResetRendered
  /\ ~TaskRunning
  /\ formState' = IdleState
  /\ UNCHANGED <<formData, inflight, toasts, consoleErrors, fetchCount>>

(***************************************************************************)
(* Continuation of handleSubmit after its awaits                           *)
(***************************************************************************)
RemoveAt(s, i) == SubSeq(s, 1, i - 1) \o SubSeq(s, i + 1, Len(s))

\* variant: the catch block also resets the fields
catchBlock_ClearsFields(i, error) ==
  /\ consoleErrors' = Append(consoleErrors, error)
  /\ formState' = FailedState
  /\ toasts' = Append(toasts, ErrorToast)
  /\ inflight' = RemoveAt(inflight, i)
  /\ formData' = EmptyFormData
  /\ UNCHANGED fetchCount

\* variant: the catch block sets the error over the previous state
\* ({...prev, error: ...}), so isSubmitting stays set
catchBlock_SpreadsPrev(i, error) ==
  /\ consoleErrors' = Append(consoleErrors, error)
  /\ formState' = [formState EXCEPT !.error = Some(SendFailed)]
  /\ toasts' = Append(toasts, ErrorToast)
  /\ inflight' = RemoveAt(inflight, i)
  /\ UNCHANGED <<formData, fetchCount>>

\* the catch block
catchBlock(i, error) ==
  /\ consoleErrors' = Append(consoleErrors, error)
  /\ formState' = FailedState
  /\ toasts' = Append(toasts, ErrorToast)
  /\ inflight' = RemoveAt(inflight, i)
  /\ UNCHANGED <<formData, fetchCount>>

\* variant: the success state is written over the previous one
\* ({...prev, isSuccess: true}), so isSubmitting stays set
successBlock_SpreadsPrev(i) ==
  /\ formState' = [formState EXCEPT !.isSuccess = TRUE]
  /\ toasts' = Append(toasts, SuccessToast)
  /\ formData' = EmptyFormData
  /\ inflight' = RemoveAt(inflight, i)
  /\ UNCHANGED <<consoleErrors, fetchCount>>

\* variant: the success toast is raised before and after the state update
successBlock_ToastTwice(i) ==
  /\ formState' = SuccessState
  /\ toasts' = Append(Append(toasts, SuccessToast), SuccessToast)
  /\ formData' = EmptyFormData
  /\ inflight' = RemoveAt(inflight, i)
  /\ UNCHANGED <<consoleErrors, fetchCount>>

\* variant: the fields are not reset after a successful submission
successBlock_KeepsFields(i) ==
  /\ formState' = SuccessState
  /\ toasts' = Append(toasts, SuccessToast)
  /\ inflight' = RemoveAt(inflight, i)
  /\ UNCHANGED <<formData, consoleErrors, fetchCount>>

\* the statements after "await response.json()" when it resolves.  With
\* batching, setFormState and setFormData are committed in one render;
\* without it, setFormState is rendered before setFormData is reached.
successBlock(i) ==
  IF AutomaticBatching
    THEN /\ formState' = SuccessState
         /\ toasts' = Append(toasts, SuccessToast)
         /\ formData' = EmptyFormData
         /\ inflight' = RemoveAt(inflight, i)
         /\ UNCHANGED <<consoleErrors, fetchCount>>
    ELSE /\ formState' = SuccessState
         /\ toasts' = Append(toasts, SuccessToast)
         /\ inflight' = [inflight EXCEPT ![i].pc = "clear"]
         /\ UNCHANGED <<formData, consoleErrors, fetchCount>>

\* setFormData({name: "", email: "", message: ""}) rendered on its own
clearFields(i) ==
  /\ formData' = EmptyFormData
  /\ inflight' = RemoveAt(inflight, i)
  /\ UNCHANGED <<formState, toasts, consoleErrors, fetchCount>>

\* await fetch(...) rejects
fetchRejects(i) ==
  /\ i \in 1..Len(inflight)
  /\ inflight[i].pc = "fetch"
  /\ catchBlock(i, NetworkError)

\* variant: Success is set as soon as the response arrives, before
\* response.json() is awaited
fetchResolves_EarlySuccess(i, response) ==
  /\ i \in 1..Len(inflight)
  /\ inflight[i].pc = "fetch"
  /\ IF ~ResponseOk(response.status)
       THEN catchBlock(i, HttpError(response.status))
       ELSE /\ inflight' = [inflight EXCEPT ![i].pc = "json",
                                            ![i].response = response]
            /\ formState' = SuccessState
            /\ UNCHANGED <<formData, toasts, consoleErrors, fetchCount>>

\* await fetch(...) resolves with a response; !response.ok throws
fetchResolves(i, response) ==
  /\ i \in 1..Len(inflight)
  /\ inflight[i].pc = "fetch"
  /\ IF ~ResponseOk(response.status)
       THEN catchBlock(i, HttpError(response.status))
       ELSE /\ inflight' = [inflight EXCEPT ![i].pc = "json",
                                            ![i].response = response]
            /\ UNCHANGED <<formData, formState, toasts, consoleErrors,
                           fetchCount>>

\* await response.json() settles, and the statements that follow it run
jsonSettles(i) ==
  /\ i \in 1..Len(inflight)
  /\ inflight[i].pc \in {"json", "clear"}
  /\ IF inflight[i].pc = "clear"
       THEN clearFields(i)
       ELSE IF inflight[i].response.bodyParses
         THEN successBlock(i)
         ELSE catchBlock(i, JsonError)

(***************************************************************************)
(* Specifications                                                          *)
(***************************************************************************)
Fields == {"name", "email", "message"}
InputsOf(field) ==
  IF field = "name" THEN NameInputs
  ELSE IF field = "email" THEN EmailInputs
  ELSE MessageInputs

Next ==
  \/ \E field \in Fields : \E value \in InputsOf(field) :
       handleInputChange(field, value)
  \/ handleSubmit
  \/ reset
  \/ \E i \in 1..Len(inflight) : fetchRejects(i)
  \/ \E i \in 1..Len(inflight) : \E r \in Responses : fetchResolves(i, r)
  \/ \E i \in 1..Len(inflight) : jsonSettles(i)

Spec == Init /\ [][Next]_vars

\* the steps the transport takes: each awaited promise settles
fetchSettles ==
  \E i \in 1..Len(inflight) :
    fetchRejects(i) \/ \E r \in Responses : fetchResolves(i, r)
bodySettles == \E i \in 1..Len(inflight) : jsonSettles(i)

\* the form under a transport that eventually settles every request
SpecFair ==
  /\ Init
  /\ [][Next]_vars
  /\ WF_vars(fetchSettles)
  /\ WF_vars(bodySettles)

\* validation explored on every FormData within the bounds: the form is in
\* Idle with the fields already typed, and submit is invoked
InitValidate ==
  /\ formData \in [name : NameInputs, email : EmailStrings,
                   message : MessageInputs]
  /\ formState = IdleState
  /\ inflight = <<>>
  /\ toasts = <<>>
  /\ consoleErrors = <<>>
  /\ fetchCount = 0

NextValidate == handleSubmit

SpecValidate == InitValidate /\ [][NextValidate]_vars

(***************************************************************************)
(* Properties                                                              *)
(***************************************************************************)
\* a string that is empty or consists of whitespace only
Blank(s) == \A k \in 1..Len(s) : s[k] = SP

\* the four validation checks, each on its own
NamePresent(fd) == ~Blank(fd.name)
EmailPresent(fd) == ~Blank(fd.email)
EmailWellFormed(fd) == EmailRegexTest(fd.email)
MessagePresent(fd) == ~Blank(fd.message)
PassesAllChecks(fd) ==
  /\ NamePresent(fd) /\ EmailPresent(fd)
  /\ EmailWellFormed(fd) /\ MessagePresent(fd)

IsIdle(fs) == ~fs.isSubmitting /\ ~fs.isSuccess /\ fs.error = NULL
IsSubmitting(fs) == fs.isSubmitting /\ ~fs.isSuccess /\ fs.error = NULL
IsSuccess(fs) == ~fs.isSubmitting /\ fs.isSuccess /\ fs.error = NULL
IsSendFailed(fs) ==
  ~fs.isSubmitting /\ ~fs.isSuccess /\ fs.error = Some(SendFailed)

\* C1: isSubmitting and isSuccess are never both true, in any state reached
\* by field changes, submits, settlements and resets.
C1_NotSubmittingAndSuccess ==
  ~(formState.isSubmitting /\ formState.isSuccess)

\* a request has settled successfully and the confirmation view is shown
C1_Witness ==
  /\ formState.isSuccess
  /\ fetchCount >= 1
  /\ inflight = <<>>

\* C2: while isSubmitting is true, error is null.
C2_NoErrorWhileSubmitting ==
  formState.isSubmitting => formState.error = NULL

\* a resubmission right after a transport failure, whose error was displayed
\* when submit was invoked
C2_Witness ==
  /\ formState.isSubmitting
  /\ Len(consoleErrors) = 1
  /\ consoleErrors[1].kind = "network"

\* C3: at most one submission request of the form instance is in flight.
C3_AtMostOneInFlight == Len(inflight) <= 1

\* a second request is in flight after the first one has settled
C3_Witness ==
  /\ Len(inflight) = 1
  /\ fetchCount = 2

\* C4: with valid FormData and an ok response with a parseable body the form
\* goes Idle -> Submitting -> Success with no other FormState in between,
\* FormData ends empty, and exactly one success notification (and no
\* failure notification or log entry) is raised for the submission.
C4_SuccessPath ==
  [][ /\ (IsIdle(formState) /\ PassesAllChecks(formData) /\ handleSubmit)
           => IsSubmitting(formState')
      /\ \A i \in 1..Len(inflight) : \A r \in Responses :
           (fetchResolves(i, r) /\ ResponseOk(r.status))
             => (IsSubmitting(formState) /\ formState' = formState)
      /\ \A i \in 1..Len(inflight) :
           (jsonSettles(i) /\ inflight[i].response.bodyParses)
             => /\ IsSubmitting(formState)
                /\ IsSuccess(formState')
                /\ formData' = [name |-> <<>>, email |-> <<>>,
                                message |-> <<>>]
                /\ toasts' = Append(toasts, SuccessToast)
                /\ consoleErrors' = consoleErrors
    ]_vars

\* the first submission has succeeded
C4_Witness ==
  /\ IsSuccess(formState)
  /\ fetchCount = 1
  /\ toasts = <<SuccessToast>>
  /\ formData = [name |-> <<>>, email |-> <<>>, message |-> <<>>]

\* C5: a non-2xx status, a rejected fetch and an unparseable body all end
\* the same way: Submitting -> Error with the generic message, one
\* destructive notification, FormData equal to what was submitted.
C5_UniformFailure ==
  [][ \A i \in 1..Len(inflight) :
        ( \/ fetchRejects(i)
          \/ \E r \in Responses :
               ~ResponseOk(r.status) /\ fetchResolves(i, r)
          \/ (jsonSettles(i) /\ ~inflight[i].response.bodyParses) )
        => /\ IsSubmitting(formState)
           /\ IsSendFailed(formState')
           /\ toasts' = Append(toasts, ErrorToast)
           /\ ErrorToast.variant = "destructive"
           /\ formData' = inflight[i].body
           /\ PassesAllChecks(formData')
    ]_vars

\* all three kinds of failure have happened, the last one just now
C5_Witness ==
  /\ IsSendFailed(formState)
  /\ {consoleErrors[k].kind : k \in 1..Len(consoleErrors)}
       = {"http", "network", "json"}
  /\ PassesAllChecks(formData)

\* handleSubmit went on to issue a request
SubmitProceeds ==
  /\ IsSubmitting(formState')
  /\ fetchCount' = fetchCount + 1
  /\ Len(inflight') = Len(inflight) + 1

\* handleSubmit returned after validation without issuing a request
SubmitStops ==
  /\ ~formState'.isSubmitting
  /\ fetchCount' = fetchCount
  /\ inflight' = inflight

\* C6: a submit whose FormData fails validation issues no request and does
\* not enter Submitting; with a blank name the error is "Name is required"
\* whatever the e-mail and the message are.
C6_InvalidSubmitStaysLocal ==
  [][ handleSubmit =>
        /\ ~PassesAllChecks(formData) => SubmitStops
        /\ Blank(formData.name)
             => formState'.error = Some("Name is required")
    ]_vars

\* submit was invoked with a whitespace-only name and an otherwise valid form
C6_Witness ==
  /\ formData.name # <<>>
  /\ Blank(formData.name)
  /\ EmailWellFormed(formData)
  /\ MessagePresent(formData)
  /\ formState.error = Some("Name is required")
  /\ fetchCount = 0

\* C7 as stated: with a non-empty name and message, every e-mail that fails
\* the pattern, blank ones included, yields "Please enter a valid email
\* address".
C7_AsStated ==
  [][ ( /\ handleSubmit
        /\ NamePresent(formData) /\ MessagePresent(formData)
        /\ ~EmailWellFormed(formData) )
      => formState'.error = Some("Please enter a valid email address")
    ]_vars

\* C7 (amended): with a name and a message that are non-empty after trimming
\* and an e-mail that is non-empty after trimming but fails the pattern, the
\* error is "Please enter a valid email address"; a blank e-mail yields
\* "Email is required".
C7_PatternFailure ==
  [][ ( /\ handleSubmit
        /\ NamePresent(formData) /\ MessagePresent(formData)
        /\ ~EmailWellFormed(formData) )
      => /\ EmailPresent(formData)
           => formState'.error = Some("Please enter a valid email address")
         /\ ~EmailPresent(formData)
           => formState'.error = Some("Email is required")
    ]_vars

\* submit was invoked with an "@" but no "." in the e-mail
C7_Witness ==
  /\ NamePresent(formData) /\ MessagePresent(formData)
  /\ \E k \in 1..Len(formData.email) : formData.email[k] = "@"
  /\ ~EmailWellFormed(formData)
  /\ formState.error = Some("Please enter a valid email address")

\* C8: the checks run in the order name, e-mail present, e-mail pattern,
\* message and stop at the first failure; validation succeeds exactly when
\* all four pass.
C8_FirstViolationWins ==
  [][ handleSubmit =>
        /\ ~NamePresent(formData)
             => formState'.error = Some("Name is required")
        /\ (NamePresent(formData) /\ ~EmailPresent(formData))
             => formState'.error = Some("Email is required")
        /\ ( /\ NamePresent(formData) /\ EmailPresent(formData)
             /\ ~EmailWellFormed(formData) )
             => formState'.error = Some("Please enter a valid email address")
        /\ ( /\ NamePresent(formData) /\ EmailPresent(formData)
             /\ EmailWellFormed(formData) /\ ~MessagePresent(formData) )
             => formState'.error = Some("Message is required")
        /\ PassesAllChecks(formData) <=> SubmitProceeds
        /\ ~PassesAllChecks(formData) <=> SubmitStops
    ]_vars

\* submit was invoked with the e-mail pattern and the message both violated
C8_Witness ==
  /\ NamePresent(formData)
  /\ EmailPresent(formData)
  /\ ~EmailWellFormed(formData)
  /\ ~MessagePresent(formData)
  /\ formState.error = Some("Please enter a valid email address")

\* C9: the reset control, available in Success, sets FormState to Idle and
\* changes nothing else: FormData, requests and notifications stay.
C9_ResetFrame ==
  [][ formState.isSuccess =>
        /\ IsIdle(formState')
        /\ formData' = formData
        /\ inflight' = inflight
        /\ fetchCount' = fetchCount
        /\ toasts' = toasts
        /\ consoleErrors' = consoleErrors
    ]_vars

\* the form is back in Idle right after a successful submission
C9_Witness ==
  /\ IsIdle(formState)
  /\ toasts # <<>>
  /\ toasts[Len(toasts)] = SuccessToast
  /\ formData = [name |-> <<>>, email |-> <<>>, message |-> <<>>]

\* C10: every failure is recoverable.  Whenever an error is displayed the
\* form is not submitting and its controls are enabled; a submit with valid
\* FormData then enters Submitting with error null and issues a request;
\* apart from Submitting, every state offers the submit control or, in
\* Success, the reset control that leads back to it.
C10_Recoverable ==
  /\ [](formState.error # NULL => (~formState.isSubmitting /\ ControlsEnabled))
  /\ [](~formState.isSubmitting => (ControlsEnabled \/ ResetRendered))
  /\ [][ (PassesAllChecks(formData) /\ handleSubmit) => SubmitProceeds ]_vars
  /\ [](( /\ formState.error # NULL
          /\ PassesAllChecks(formData)
          /\ fetchCount < MaxSubmits ) => ENABLED handleSubmit)

\* a request is in flight again after a failed one and nothing else
C10_Witness ==
  /\ formState.isSubmitting
  /\ fetchCount = 2
  /\ toasts = <<ErrorToast>>

\* what the user can do: change a field, submit, reset
UserAction ==
  \/ \E field \in Fields : \E value \in InputsOf(field) :
       handleInputChange(field, value)
  \/ handleSubmit
  \/ reset

\* C11: a started submission leaves Submitting only by the request
\* settling.  In Submitting no user action is enabled, every change of
\* FormState goes with a settled request and leads to Success or Error, and
\* under a transport that eventually settles every request Submitting is
\* always followed by Success or Error.
C11_OnlySettlingLeavesSubmitting ==
  /\ [](formState.isSubmitting => (~ControlsEnabled /\ ~ResetRendered))
  /\ [](formState.isSubmitting => ~ENABLED UserAction)
  /\ [][ (formState.isSubmitting /\ formState' # formState)
           => /\ Len(inflight') < Len(inflight)
              /\ IsSuccess(formState') \/ IsSendFailed(formState')
              /\ fetchCount' = fetchCount
       ]_vars
  /\ [][ (formState.isSubmitting /\ formState' = formState)
           => formData' = formData ]_vars
  /\ (formState.isSubmitting
        ~> (IsSuccess(formState) \/ IsSendFailed(formState)))

\* the first submission ended in Error when its body failed to parse
C11_Witness ==
  /\ IsSendFailed(formState)
  /\ fetchCount = 1
  /\ consoleErrors = <<JsonError>>

\* C12: Submitting is entered only after validation has succeeded and left
\* only when the network call has settled: isSubmitting is true exactly
\* when a request has been issued and has not settled, and the FormData of
\* a Submitting state passes all four checks.
C12_SubmittingIffInFlight ==
  /\ [](formState.isSubmitting <=> inflight # <<>>)
  /\ [](formState.isSubmitting => PassesAllChecks(formData))
  /\ [][ (~formState.isSubmitting /\ formState'.isSubmitting)
           => /\ PassesAllChecks(formData)
              /\ fetchCount' = fetchCount + 1 ]_vars
  /\ [][ (formState.isSubmitting /\ ~formState'.isSubmitting)
           => inflight' = <<>> /\ inflight # <<>> ]_vars

\* the response has arrived and its body is still being read
C12_Witness ==
  /\ formState.isSubmitting
  /\ Len(inflight) = 1
  /\ inflight[1].pc = "json"
  /\ inflight[1].response.bodyParses

\* C13: a field change in Idle or Error replaces exactly the named field
\* with the new value and leaves the other two; afterwards error is null
\* whatever it was, isSubmitting and isSuccess are unchanged, no request is
\* issued and no notification is raised.
C13_FieldChangeFrame ==
  [][ \A field \in Fields : \A value \in InputsOf(field) :
        handleInputChange(field, value)
          => /\ ~formState.isSubmitting /\ ~formState.isSuccess
             /\ formData'[field] = value
             /\ \A other \in Fields \ {field} :
                  formData'[other] = formData[other]
             /\ formState'.error = NULL
             /\ formState'.isSubmitting = formState.isSubmitting
             /\ formState'.isSuccess = formState.isSuccess
             /\ fetchCount' = fetchCount
             /\ inflight' = inflight
             /\ toasts' = toasts
             /\ consoleErrors' = consoleErrors
    ]_vars

\* a field was changed while the transport error was displayed: the error
\* is gone and the changed FormData no longer passes validation
C13_Witness ==
  /\ IsIdle(formState)
  /\ toasts = <<ErrorToast>>
  /\ inflight = <<>>
  /\ ~PassesAllChecks(formData)

\* the messages validation can produce
ValidationMessages ==
  { "Name is required", "Email is required",
    "Please enter a valid email address", "Message is required" }

\* C14: a submit that fails validation changes FormState.error only:
\* FormData, isSubmitting and isSuccess keep their values, whatever error
\* was shown is replaced by the one validation message, and no notification
\* is raised.
C14_InvalidSubmitFrame ==
  [][ (~PassesAllChecks(formData) /\ handleSubmit)
        => /\ formData' = formData
           /\ formState'.isSubmitting = formState.isSubmitting
           /\ formState'.isSuccess = formState.isSuccess
           /\ \E m \in ValidationMessages : formState'.error = Some(m)
           /\ toasts' = toasts
           /\ consoleErrors' = consoleErrors
           /\ fetchCount' = fetchCount
           /\ inflight' = inflight
    ]_vars

\* after a failed request and an edit that emptied the message, submit was
\* invoked again and stopped at validation
C14_Witness ==
  /\ formState.error = Some("Message is required")
  /\ toasts = <<ErrorToast>>
  /\ fetchCount = 1

C16_FormDataFrozenInFlight ==
  /\ [](\A i \in 1..Len(inflight) : inflight[i].body = formData)
  /\ [](formState.isSubmitting
          => \A field \in Fields : \A value \in InputsOf(field) :
               ~ENABLED handleInputChange(field, value))
  /\ [][ Len(inflight') > Len(inflight)
           => inflight'[Len(inflight')].body = formData ]_vars
  /\ [][ (formState.isSubmitting /\ formState'.isSubmitting)
           => formData' = formData ]_vars
  /\ [][ (formState.isSubmitting /\ IsSendFailed(formState'))
           => formData' = inflight[1].body ]_vars

\* the response has arrived with a body that will not parse; FormData is
\* still the body that was sent
C16_Witness ==
  /\ formState.isSubmitting
  /\ Len(inflight) = 1
  /\ inflight[1].pc = "json"
  /\ ~inflight[1].response.bodyParses
  /\ inflight[1].body = formData
  /\ formData # [name |-> <<>>, email |-> <<>>, message |-> <<>>]

====
